---- MODULE Spec2Model ----
(***************************************************************************)
(* Model of hexcore/utils/terminal.py: the two operations that toggle the  *)
(* truecolor export lines of ~/.bashrc, and the argument dispatcher.       *)
(*                                                                         *)
(* The file is a pair (exists, content).  content is the text of the file  *)
(* as Python's text-mode I/O presents it: a sequence of tokens, each token *)
(* standing for a fixed run of characters.  The tokens are cut so that an  *)
(* occurrence of a searched string in the characters is always an          *)
(* occurrence of its token sequence: "COLOR" is the only token with an     *)
(* upper-case C, "TERM=" the only one that starts with an upper-case T,    *)
(* and so on.  "COLORTERM=" is therefore two tokens, which keeps the fact  *)
(* that "COLORTERM=xterm-256color" contains "TERM=xterm-256color".         *)
(***************************************************************************)
EXTENDS Integers, Sequences, FiniteSets, TLC

\* ---------------------------------------------------------------- bounds
MaxLines == 3      \* lines in the initial file
MaxOps   == 2      \* invocations of handle_arguments in one behaviour

\* ---------------------------------------------------------------- text
NL == "\n"

\* "COLORTERM=truecolor" in content            (terminal.py:41, :71)
Marker1 == <<"COLOR", "TERM=", "truecolor">>
\* "TERM=xterm-256color" in content            (terminal.py:44, :71)
Marker2 == <<"TERM=", "xterm-256color">>

\* "export COLORTERM=truecolor\n"              (terminal.py:42)
ExportLine1 == <<"export ", "COLOR", "TERM=", "truecolor", NL>>
\* "export TERM=xterm-256color\n"              (terminal.py:45)
ExportLine2 == <<"export ", "TERM=", "xterm-256color", NL>>

\* Python's `m in s` on strings: m occurs as a contiguous run of s.
Contains(s, m) ==
    \E i \in 1..(Len(s) - Len(m) + 1) : SubSeq(s, i, i + Len(m) - 1) = m

\* file.readlines(): the text cut after every newline; a last piece without
\* a newline is a line too, an empty last piece is not.
RECURSIVE ReadlinesFrom(_, _)
ReadlinesFrom(s, cur) ==
    IF s = <<>> THEN (IF cur = <<>> THEN <<>> ELSE <<cur>>)
    ELSE IF Head(s) = NL
         THEN <<Append(cur, NL)>> \o ReadlinesFrom(Tail(s), <<>>)
         ELSE ReadlinesFrom(Tail(s), Append(cur, Head(s)))

Readlines(s) == ReadlinesFrom(s, <<>>)

\* file.writelines(ls): the strings written one after the other, nothing added.
RECURSIVE Writelines(_)
Writelines(ls) == IF ls = <<>> THEN <<>> ELSE Head(ls) \o Writelines(Tail(ls))

\* lines_to_add built by enable_truecolor_support from the content it read.
LinesToAddAlways(c) == <<ExportLine1, ExportLine2>>

LinesToAddElif(c) ==
    IF ~Contains(c, Marker1) THEN <<ExportLine1>>
    ELSE IF ~Contains(c, Marker2) THEN <<ExportLine2>> ELSE <<>>

LinesToAddSwapped(c) ==
    (IF ~Contains(c, Marker2) THEN <<ExportLine2>> ELSE <<>>)
    \o (IF ~Contains(c, Marker1) THEN <<ExportLine1>> ELSE <<>>)

LinesToAdd(c) ==
    (IF ~Contains(c, Marker1) THEN <<ExportLine1>> ELSE <<>>)
    \o (IF ~Contains(c, Marker2) THEN <<ExportLine2>> ELSE <<>>)

\* new_lines built by disable_truecolor_support from the lines it read.
NewLinesOr(ls) ==
    SelectSeq(ls, LAMBDA l : ~Contains(l, Marker1) \/ ~Contains(l, Marker2))

NewLines(ls) ==
    SelectSeq(ls, LAMBDA l : ~Contains(l, Marker1) /\ ~Contains(l, Marker2))

\* ---------------------------------------------------------------- messages
MsgAdded    == "Truecolor configuration added to ~/.bashrc"
MsgRemoved  == "Truecolor configuration removed from ~/.bashrc"
MsgReload   == "Please run 'source ~/.bashrc' or restart your terminal to apply changes."
MsgAlready  == "Truecolor environment variables are already present."
MsgNoFile   == "No ~/.bashrc file found. Nothing to remove."
MsgNotFound == "No truecolor environment variables found in ~/.bashrc"
MsgConflict == "Error: --enable-truecolor and --disable-truecolor cannot be used together."

\* ---------------------------------------------------------------- inputs
\* Line bodies of the initial file: unrelated text, the export lines, the bare
\* assignments, a commented-out export, an assignment that only looks like a
\* marker, a partial marker, and both assignments on one line.
Bodies ==
    { <<>>,
      <<"a">>,
      <<"export ", "COLOR", "TERM=", "truecolor">>,
      <<"export ", "TERM=", "xterm-256color">>,
      <<"COLOR", "TERM=", "truecolor">>,
      <<"TERM=", "xterm-256color">>,
      <<"#", "export ", "COLOR", "TERM=", "truecolor">>,
      <<"COLOR", "TERM=", "xterm-256color">>,
      <<"COLOR", "TERM=">>,
      <<"COLOR", "TERM=", "truecolor", "#", "TERM=", "xterm-256color">> }

\* Texts of at most n newline-terminated lines.
RECURSIVE Texts(_)
Texts(n) ==
    IF n = 0 THEN { <<>> }
    ELSE LET p == Texts(n - 1)
         IN  p \cup { t \o b \o <<NL>> : t \in p, b \in Bodies }

\* Initial contents: at most MaxLines lines, the last one with or without
\* its newline.
InitialContents ==
    Texts(MaxLines) \cup { t \o b : t \in Texts(MaxLines - 1), b \in Bodies }

\* ---------------------------------------------------------------- state
VARIABLES
    exists,        \* os.path.exists(bashrc_path)
    content,       \* text of the file (<<>> while it does not exist)
    pc,            \* position of the running invocation
    args,          \* the flags handle_arguments was last called with
    op,            \* what handle_arguments dispatched to
    ret,           \* return value of handle_arguments ("none" while running)
    out,           \* lines printed by the running invocation
    reads,         \* opens for reading by the running invocation
    writes,        \* opens with "w" or "a" by the running invocation
    content_read,  \* local `content` of enable_truecolor_support
    lines,         \* local `lines` of disable_truecolor_support
    pre_exists,    \* the file when the running invocation started
    pre_content,
    init_exists,   \* the file at the start of the behaviour
    init_content,
    hist           \* operations dispatched so far, the running one last

vars == <<exists, content, pc, args, op, ret, out, reads, writes, content_read,
          lines, pre_exists, pre_content, init_exists, init_content, hist>>

file   == <<exists, content>>
locals == <<content_read, lines>>
ghost  == <<pre_exists, pre_content, init_exists, init_content, hist>>

Init ==
    /\ exists \in BOOLEAN
    /\ content \in (IF exists THEN InitialContents ELSE { <<>> })
    /\ pc = "idle"
    /\ args = [enable_truecolor |-> FALSE, disable_truecolor |-> FALSE]
    /\ op = "none"
    /\ ret = "none"
    /\ out = <<>>
    /\ reads = 0
    /\ writes = 0
    /\ content_read = <<>>
    /\ lines = <<>>
    /\ pre_exists = exists
    /\ pre_content = content
    /\ init_exists = exists
    /\ init_content = content
    /\ hist = <<>>

\* ---------------------------------------------------------------- handle_arguments
Begin(o, printed) ==
    /\ op' = o
    /\ hist' = Append(hist, o)
    /\ pre_exists' = exists
    /\ pre_content' = content
    /\ out' = printed
    /\ reads' = 0
    /\ writes' = 0
    /\ content_read' = <<>>
    /\ lines' = <<>>
    /\ UNCHANGED <<file, init_exists, init_content>>

\* handle_arguments without the test of terminal.py:113.
DispatchNoConflictCheck(enable_truecolor, disable_truecolor) ==
    IF enable_truecolor
    THEN Begin("enable", <<>>) /\ pc' = "e_exists" /\ ret' = "none"
    ELSE IF disable_truecolor
    THEN Begin("disable", <<>>) /\ pc' = "d_exists" /\ ret' = "none"
    ELSE Begin("unhandled", <<>>) /\ pc' = "done" /\ ret' = "False"

\* The branches of handle_arguments up to the call it makes.
Dispatch(enable_truecolor, disable_truecolor) ==
    IF enable_truecolor /\ disable_truecolor
    THEN Begin("conflict", <<MsgConflict>>) /\ pc' = "done" /\ ret' = "True"
    ELSE IF enable_truecolor
    THEN Begin("enable", <<>>) /\ pc' = "e_exists" /\ ret' = "none"
    ELSE IF disable_truecolor
    THEN Begin("disable", <<>>) /\ pc' = "d_exists" /\ ret' = "none"
    ELSE Begin("unhandled", <<>>) /\ pc' = "done" /\ ret' = "False"

\* handle_arguments(args), args being the two store_true flags.
HandleArguments ==
    /\ pc = "idle"
    /\ Len(hist) < MaxOps
    /\ \E enable_truecolor \in BOOLEAN, disable_truecolor \in BOOLEAN :
           /\ args' = [enable_truecolor |-> enable_truecolor,
                       disable_truecolor |-> disable_truecolor]
           /\ Dispatch(enable_truecolor, disable_truecolor)

\* ---------------------------------------------------------------- enable_truecolor_support
\* if not os.path.exists(p): open(p, "w").close(), with the test left out.
EnableCreateAlways ==
    /\ pc = "e_exists"
    /\ exists' = TRUE
    /\ content' = <<>>
    /\ writes' = writes + 1
    /\ pc' = "e_read"
    /\ UNCHANGED <<args, op, ret, out, reads, locals, ghost>>

\* if not os.path.exists(p): open(p, "w").close()
EnableCreate ==
    /\ pc = "e_exists"
    /\ IF ~exists
       THEN /\ exists' = TRUE
            /\ content' = <<>>
            /\ writes' = writes + 1
       ELSE UNCHANGED <<file, writes>>
    /\ pc' = "e_read"
    /\ UNCHANGED <<args, op, ret, out, reads, locals, ghost>>

\* with open(p, "r") as file: content = file.read()
EnableRead ==
    /\ pc = "e_read"
    /\ content_read' = content
    /\ reads' = reads + 1
    /\ pc' = "e_append"
    /\ UNCHANGED <<file, args, op, ret, out, writes, lines, ghost>>

\* The append done whether or not lines_to_add is empty.
EnableAppendUnconditional ==
    /\ pc = "e_append"
    /\ LET lines_to_add == LinesToAdd(content_read)
       IN  /\ content' = content \o Writelines(lines_to_add)
           /\ writes' = writes + 1
           /\ out' = IF lines_to_add # <<>>
                     THEN out \o <<MsgAdded, MsgReload>>
                     ELSE Append(out, MsgAlready)
    /\ ret' = "True"
    /\ pc' = "done"
    /\ UNCHANGED <<exists, args, op, reads, locals, ghost>>

\* The file opened with "w" instead of "a".
EnableAppendTruncating ==
    /\ pc = "e_append"
    /\ LET lines_to_add == LinesToAdd(content_read)
       IN  IF lines_to_add # <<>>
           THEN /\ content' = Writelines(lines_to_add)
                /\ writes' = writes + 1
                /\ out' = out \o <<MsgAdded, MsgReload>>
           ELSE /\ out' = Append(out, MsgAlready)
                /\ UNCHANGED <<content, writes>>
    /\ ret' = "True"
    /\ pc' = "done"
    /\ UNCHANGED <<exists, args, op, reads, locals, ghost>>

\* lines_to_add, the append, the message, and handle_arguments' return True.
EnableAppend ==
    /\ pc = "e_append"
    /\ LET lines_to_add == LinesToAdd(content_read)
       IN  IF lines_to_add # <<>>
           THEN /\ content' = content \o Writelines(lines_to_add)
                /\ writes' = writes + 1
                /\ out' = out \o <<MsgAdded, MsgReload>>
           ELSE /\ out' = Append(out, MsgAlready)
                /\ UNCHANGED <<content, writes>>
    /\ ret' = "True"
    /\ pc' = "done"
    /\ UNCHANGED <<exists, args, op, reads, locals, ghost>>

\* ---------------------------------------------------------------- disable_truecolor_support
\* The missing file reported with the message of terminal.py:80.
DisableExistsWrongMessage ==
    /\ pc = "d_exists"
    /\ IF ~exists
       THEN /\ out' = Append(out, MsgNotFound)
            /\ ret' = "True"
            /\ pc' = "done"
       ELSE /\ pc' = "d_read"
            /\ UNCHANGED <<out, ret>>
    /\ UNCHANGED <<file, args, op, reads, writes, locals, ghost>>

\* if not os.path.exists(p): print(...); return
DisableExists ==
    /\ pc = "d_exists"
    /\ IF ~exists
       THEN /\ out' = Append(out, MsgNoFile)
            /\ ret' = "True"
            /\ pc' = "done"
       ELSE /\ pc' = "d_read"
            /\ UNCHANGED <<out, ret>>
    /\ UNCHANGED <<file, args, op, reads, writes, locals, ghost>>

\* with open(p, "r") as file: lines = file.readlines()
DisableRead ==
    /\ pc = "d_read"
    /\ lines' = Readlines(content)
    /\ reads' = reads + 1
    /\ pc' = "d_write"
    /\ UNCHANGED <<file, args, op, ret, out, writes, content_read, ghost>>

\* new_lines, the rewrite, the message, and handle_arguments' return True.
DisableWrite ==
    /\ pc = "d_write"
    /\ LET new_lines == NewLines(lines)
       IN  IF Len(new_lines) # Len(lines)
           THEN /\ content' = Writelines(new_lines)
                /\ writes' = writes + 1
                /\ out' = out \o <<MsgRemoved, MsgReload>>
           ELSE /\ out' = Append(out, MsgNotFound)
                /\ UNCHANGED <<content, writes>>
    /\ ret' = "True"
    /\ pc' = "done"
    /\ UNCHANGED <<exists, args, op, reads, locals, ghost>>

\* ---------------------------------------------------------------- the caller
\* handle_arguments has returned; the process ends and the tool may be run again.
Return ==
    /\ pc = "done"
    /\ Len(hist) < MaxOps
    /\ pc' = "idle"
    /\ UNCHANGED <<file, args, op, ret, out, reads, writes, locals, ghost>>

Next ==
    \/ HandleArguments
    \/ EnableCreate
    \/ EnableRead
    \/ EnableAppend
    \/ DisableExists
    \/ DisableRead
    \/ DisableWrite
    \/ Return

Spec == Init /\ [][Next]_vars

\* ---------------------------------------------------------------- properties
Done(o) == pc = "done" /\ op = o

Range(f) == { f[i] : i \in DOMAIN f }

HasMarker(s) == Contains(s, Marker1) \/ Contains(s, Marker2)

\* A line without its newline, so that a last line compares equal to the
\* same line elsewhere in the file.
StripNL(l) ==
    IF l # <<>> /\ l[Len(l)] = NL THEN SubSeq(l, 1, Len(l) - 1) ELSE l

LineSet(s) == { StripNL(l) : l \in Range(Readlines(s)) }

\* The marker strings as written with their "export " prefix.
ExportMarker1 == <<"export ", "COLOR", "TERM=", "truecolor">>
ExportMarker2 == <<"export ", "TERM=", "xterm-256color">>

\* C1: after Enable and then Disable, the set of lines of the file is the set
\* of lines of the initial content C that contain neither marker: no such
\* line is lost or altered, whether or not C ends with a newline.
C1_EnableThenDisableKeepsLines ==
    (pc = "done" /\ hist = <<"enable", "disable">>)
        => LineSet(content) = { l \in LineSet(init_content) : ~HasMarker(l) }

\* C2: an operation run twice in a row leaves the file, after the second run,
\* exactly as the first run left it (existence and full content), and the
\* second run writes nothing.
C2_Idempotent ==
    (/\ pc = "done"
     /\ op \in {"enable", "disable"}
     /\ Len(hist) >= 2
     /\ hist[Len(hist) - 1] = op)
        => /\ exists = pre_exists
           /\ content = pre_content
           /\ writes = 0

C2_Witness ==
    /\ pc = "done"
    /\ hist = <<"enable", "enable">>
    /\ init_exists
    /\ pre_content # init_content

\* C3 as stated: after Enable, "export COLORTERM=truecolor" and
\* "export TERM=xterm-256color" both occur in the file.
C3_ExportMarkersAfterEnable ==
    Done("enable")
        => /\ Contains(content, ExportMarker1)
           /\ Contains(content, ExportMarker2)

\* C3 amended: after Enable, for every initial file state, the file exists and
\* both strings the code searches for, "COLORTERM=truecolor" and
\* "TERM=xterm-256color", occur in it.
C3_MarkersAfterEnable ==
    Done("enable")
        => /\ exists
           /\ Contains(content, Marker1)
           /\ Contains(content, Marker2)

C3_Witness ==
    /\ Done("enable")
    /\ content # pre_content
    /\ ~Contains(content, ExportMarker2)

\* C4: Disable on an existing file leaves exactly the lines of the original
\* that contain neither marker, in their order and unmodified; no line with a
\* marker remains.
C4_DisableFilters ==
    (Done("disable") /\ pre_exists)
        => /\ exists
           /\ content = Writelines(SelectSeq(Readlines(pre_content),
                                             LAMBDA l : ~HasMarker(l)))
           /\ \A l \in Range(Readlines(content)) : ~HasMarker(l)

C4_Witness ==
    /\ Done("disable")
    /\ pre_exists
    /\ Len(Readlines(content)) >= 2
    /\ Len(Readlines(pre_content)) >= Len(Readlines(content)) + 2

\* C5: Enable on a missing file first creates the file empty, and ends with
\* the file holding exactly the two export lines, COLORTERM first, each with
\* its newline.
C5_EnableOnMissingFile ==
    /\ (pc = "e_read" /\ ~pre_exists) => (exists /\ content = <<>>)
    /\ (Done("enable") /\ ~pre_exists)
           => /\ exists
              /\ content = <<"export ", "COLOR", "TERM=", "truecolor", "\n",
                             "export ", "TERM=", "xterm-256color", "\n">>
              /\ Len(Readlines(content)) = 2

C5_Witness == Done("enable") /\ ~pre_exists /\ Len(content) = 9

\* C6: Enable on a file that contains both markers, anywhere, writes nothing:
\* the content is unchanged, the file is not opened for append, and the
\* "already present" message is printed, not the success message.
C6_EnableNoWriteWhenPresent ==
    (/\ Done("enable")
     /\ pre_exists
     /\ Contains(pre_content, Marker1)
     /\ Contains(pre_content, Marker2))
        => /\ exists
           /\ content = pre_content
           /\ writes = 0
           /\ out = <<MsgAlready>>

C6_Witness ==
    /\ Done("enable")
    /\ pre_exists
    /\ Contains(pre_content, <<"#", "export ", "COLOR", "TERM=", "truecolor">>)
    /\ Contains(pre_content, Marker2)
    /\ out = <<MsgAlready>>

\* C7: Disable on a missing file writes nothing and prints "nothing to
\* remove": the file is still missing, and neither the success message nor
\* the "nothing found" message is printed.
C7_DisableOnMissingFile ==
    (Done("disable") /\ ~pre_exists)
        => /\ ~exists
           /\ content = <<>>
           /\ writes = 0
           /\ out = <<MsgNoFile>>

C7_Witness == Done("disable") /\ ~pre_exists /\ out = <<MsgNoFile>>

\* C8: with both flags set, handle_arguments runs neither operation, prints
\* the conflict message and returns True, the file unchanged; with no flag
\* set it returns False, the file unchanged.
C8_ConflictAndUnhandled ==
    /\ (args.enable_truecolor /\ args.disable_truecolor)
           => /\ pc \in {"idle", "done"}
              /\ exists = pre_exists
              /\ content = pre_content
              /\ reads = 0
              /\ writes = 0
              /\ out = <<MsgConflict>>
              /\ ret = "True"
    /\ (hist # <<>> /\ ~args.enable_truecolor /\ ~args.disable_truecolor)
           => /\ pc \in {"idle", "done"}
              /\ exists = pre_exists
              /\ content = pre_content
              /\ reads = 0
              /\ writes = 0
              /\ ret = "False"

C8_Witness ==
    /\ pc = "done"
    /\ args.enable_truecolor
    /\ args.disable_truecolor
    /\ exists
    /\ HasMarker(content)
    /\ out = <<MsgConflict>>

\* C9: on an existing file with content C, Enable leaves C followed by the
\* COLORTERM export line iff its marker was not in C, followed by the TERM
\* export line iff its marker was not in C; and the success message is
\* printed iff something was appended.
C9_EnableAppendsMissing ==
    (Done("enable") /\ pre_exists)
        => /\ content =
                  pre_content
                  \o (IF Contains(pre_content, Marker1) THEN <<>>
                      ELSE <<"export ", "COLOR", "TERM=", "truecolor", "\n">>)
                  \o (IF Contains(pre_content, Marker2) THEN <<>>
                      ELSE <<"export ", "TERM=", "xterm-256color", "\n">>)
           /\ (MsgAdded \in Range(out)) <=> (content # pre_content)

C9_Witness ==
    /\ Done("enable")
    /\ pre_exists
    /\ pre_content # <<>>
    /\ Contains(pre_content, Marker2)
    /\ ~Contains(pre_content, Marker1)
    /\ Len(content) = Len(pre_content) + 5

\* C10 as stated: an invocation opens the file at most once for reading and
\* at most once for writing (create, truncate or append).
C10_OneReadOneWrite == reads <= 1 /\ writes <= 1

\* C10 amended: an invocation opens the file at most once for reading, and at
\* most once for writing except for Enable on a missing file, which opens it
\* twice: once to create it and once to append.
C10_OneReadOneWriteButCreate ==
    /\ reads <= 1
    /\ \/ writes <= 1
       \/ (writes = 2 /\ op = "enable" /\ ~pre_exists)

C10_Witness == Done("enable") /\ ~pre_exists /\ writes = 2 /\ reads = 1
====
